---------------------------- MODULE Spec2Model ----------------------------
(***************************************************************************)
(* Model of system_tests/nox.py: the noxfile that prepares the environment *)
(* of each system-test session (Cloud SDK installation, credentials,       *)
(* environment variables) and then runs pytest.                            *)
(*                                                                         *)
(* One nox process runs a sequence of sessions.  The process state is the  *)
(* file system under CLOUD_SDK_ROOT, the Cloud SDK's own configuration,    *)
(* the working directory and os.environ; the session state is session.env, *)
(* session.virtualenv and the position in the session function.  Every    *)
(* external step (session.run, session.chdir, subprocess.check_output) is  *)
(* executed when it is called, runs to completion, and either succeeds or  *)
(* raises, which ends the session.  The variable trace records the steps   *)
(* of the current session in the order they were executed.                 *)
(***************************************************************************)
EXTENDS Naturals, Sequences, FiniteSets, TLC

VARIABLES
    skip_env,           \* SKIP_GAE_TEST_ENV in os.environ
    files,              \* path -> contents (Absent when the path does not exist)
    gcloud_project,     \* core/project of the SDK configuration under CLOUD_SDK_ROOT
    install_completed,  \* install.sh has run to completion in CLOUD_SDK_INSTALL_DIR
    cwd,                \* working directory of the process
    n,                  \* sessions started so far
    cur,                \* the session function being run
    pc,                 \* position in the session function
    virtualenv,         \* session.virtualenv
    env,                \* session.env
    trace,              \* steps executed by the current session, in order
    log,                \* session.log / session.error messages of the session
    lookup_stdout,      \* stdout of 'gcloud config list project' (session_app_engine)
    project_id,         \* local project_id of session_app_engine
    application_url,    \* local application_url of session_app_engine
    start               \* history: the disk as it was when the session started

vars == <<skip_env, files, gcloud_project, install_completed, cwd, n, cur, pc,
          virtualenv, env, trace, log, lookup_stdout, project_id,
          application_url, start>>

disk == <<files, gcloud_project, install_completed>>
locals == <<lookup_stdout, project_id, application_url>>

(* Number of sessions one nox process runs in the model. *)
MaxSessions == 3

None == "<None>"
Absent == "<absent>"
(* lookup_stdout before check_output has returned *)
NoOutput == <<None>>

PathJoin(dir, name) == dir \o "/" \o name

(* ------------------------- module-level constants ---------------------- *)
HERE == "/repo/system_tests"
DATA_DIR == PathJoin(HERE, "data")
SERVICE_ACCOUNT_FILE == PathJoin(DATA_DIR, "service_account.json")
AUTHORIZED_USER_FILE == PathJoin(DATA_DIR, "authorized_user.json")
EXPLICIT_CREDENTIALS_ENV == "GOOGLE_APPLICATION_CREDENTIALS"
EXPLICIT_PROJECT_ENV == "GOOGLE_CLOUD_PROJECT"
EXPECT_PROJECT_ENV == "EXPECT_PROJECT_ID"

SKIP_GAE_TEST_ENV == "SKIP_APP_ENGINE_SYSTEM_TEST"
(* A format template is the sequence of its literal pieces and "{}" fields. *)
GAE_APP_URL_TMPL == <<"https://", "{}", "-dot-", "{}", ".appspot.com">>
GAE_TEST_APP_SERVICE == "google-auth-system-tests"

CLOUD_SDK_DIST_FILENAME == "google-cloud-sdk.tar.gz"
CLOUD_SDK_DOWNLOAD_URL ==
    "https://dl.google.com/dl/cloudsdk/release/" \o CLOUD_SDK_DIST_FILENAME
CLOUD_SDK_CONFIG_ENV == "CLOUDSDK_CONFIG"
CLOUD_SDK_ROOT == "/sdk_root"
CLOUD_SDK_INSTALL_DIR == PathJoin(CLOUD_SDK_ROOT, "google-cloud-sdk")
GCLOUD == PathJoin(PathJoin(CLOUD_SDK_INSTALL_DIR, "bin"), "gcloud")
CLOUD_SDK_PYTHON_ENV == "CLOUDSDK_PYTHON"
CLOUD_SDK_PYTHON == "/usr/bin/python2"

(* Paths computed inside the functions. *)
tar_path == PathJoin(CLOUD_SDK_ROOT, CLOUD_SDK_DIST_FILENAME)
install_sh == PathJoin(CLOUD_SDK_INSTALL_DIR, "install.sh")
dest == PathJoin(CLOUD_SDK_ROOT, "application_default_credentials.json")
app_dir == PathJoin(HERE, "app_engine_test_app")

Paths == {SERVICE_ACCOUNT_FILE, AUTHORIZED_USER_FILE, tar_path, GCLOUD,
          install_sh, dest}

(* What the release archive holds under CLOUD_SDK_INSTALL_DIR. *)
ArchiveMembers == {GCLOUD, install_sh}

(* ------------------------------ strings -------------------------------- *)
Whitespace == {" ", "\n", "\t"}

(* str.strip(): a string is the sequence of its whitespace characters and  *)
(* its runs of other characters; leading and trailing whitespace goes.     *)
RECURSIVE LStrip(_)
LStrip(s) ==
    IF s # <<>> /\ Head(s) \in Whitespace THEN LStrip(Tail(s)) ELSE s

RECURSIVE RStrip(_)
RStrip(s) ==
    IF s # <<>> /\ s[Len(s)] \in Whitespace
    THEN RStrip(SubSeq(s, 1, Len(s) - 1))
    ELSE s

Strip(s) == RStrip(LStrip(s))

RECURSIVE Concat(_)
Concat(s) == IF s = <<>> THEN "" ELSE Head(s) \o Concat(Tail(s))

(* str.format: each "{}" field takes the next argument. *)
RECURSIVE FormatSwapped(_, _)
FormatSwapped(tmpl, args) ==
    IF tmpl = <<>> THEN ""
    ELSE IF Head(tmpl) = "{}"
         THEN args[Len(args)]
                  \o FormatSwapped(Tail(tmpl), SubSeq(args, 1, Len(args) - 1))
         ELSE Head(tmpl) \o FormatSwapped(Tail(tmpl), args)

RECURSIVE FormatFields(_, _)
FormatFields(tmpl, args) ==
    IF tmpl = <<>> THEN ""
    ELSE IF Head(tmpl) = "{}"
         THEN Head(args) \o FormatFields(Tail(tmpl), Tail(args))
         ELSE Head(tmpl) \o FormatFields(Tail(tmpl), args)

Format(tmpl, args) == FormatFields(tmpl, args)

(* Outputs 'gcloud config list project --format value(core.project)' can   *)
(* print, depending on the developer's own SDK configuration.              *)
LookupOutputs ==
    { <<>>, <<"\n">>, <<" ", "\n">>,
      <<"example-project", "\n">>, <<"example-project">>,
      <<"\n", "other-project", "\n">> }

(* ------------------------------ session.env ---------------------------- *)
NoEnv == [k \in {} |-> ""]
SetEnv(e, k, v) == [x \in (DOMAIN e) \cup {k} |-> IF x = k THEN v ELSE e[x]]

(* ------------------------------- sessions ------------------------------ *)
CloudSdkSessions ==
    { "session_default_cloud_sdk_service_account",
      "session_default_cloud_sdk_authorized_user",
      "session_default_cloud_sdk_authorized_user_configured_project" }

(* The arguments each session passes to configure_cloud_sdk. *)
CredentialsArg(s) ==
    IF s = "session_default_cloud_sdk_service_account"
    THEN SERVICE_ACCOUNT_FILE
    ELSE AUTHORIZED_USER_FILE

ProjectArg(s) ==
    s = "session_default_cloud_sdk_authorized_user_configured_project"

(* The locals of session_app_engine exist only while it runs. *)
NoLocals ==
    /\ lookup_stdout' = NoOutput
    /\ project_id' = None
    /\ application_url' = None

Between == {"idle", "done", "failed"}

Snapshot == [files |-> files, project |-> gcloud_project,
             installed |-> install_completed]

(* A step of the session: what was executed, how, and with which env. *)
Step(via, cmd, args, silent, ok, e) ==
    [via |-> via, cmd |-> cmd, args |-> args, silent |-> silent, ok |-> ok,
     env |-> e]

(* session.run(cmd, *args, silent=...): the command runs with session.env; *)
(* a failure raises and ends the session, success goes on to next.         *)
RunNoAbort(tr, e, cmd, args, silent, ok, next) ==
    /\ trace' = Append(tr, Step("session.run", cmd, args, silent, ok, e))
    /\ pc' = next

Run(tr, e, cmd, args, silent, ok, next) ==
    /\ trace' = Append(tr, Step("session.run", cmd, args, silent, ok, e))
    /\ pc' = IF ok THEN next ELSE "failed"

(* nox calls the session function with a fresh session object. *)
Begin(name) ==
    /\ pc \in Between
    /\ n < MaxSessions
    /\ n' = n + 1
    /\ cur' = name
    /\ virtualenv' = FALSE
    /\ start' = Snapshot

Init ==
    /\ skip_env \in BOOLEAN
    /\ files = [p \in Paths |->
                  IF p = SERVICE_ACCOUNT_FILE THEN "service account key"
                  ELSE IF p = AUTHORIZED_USER_FILE THEN "authorized user token"
                  ELSE Absent]
    /\ gcloud_project = ""
    /\ install_completed = FALSE
    /\ cwd = HERE
    /\ n = 0
    /\ cur = None
    /\ pc = "idle"
    /\ virtualenv = TRUE
    /\ env = NoEnv
    /\ trace = <<>>
    /\ log = <<>>
    /\ lookup_stdout = NoOutput
    /\ project_id = None
    /\ application_url = None
    /\ start = Snapshot

(* ------------------- sessions that only run pytest --------------------- *)
(* The session sets session.env to e and runs pytest on one test file. *)
PytestOnly(name, e, test_file) ==
    \E ok \in BOOLEAN :
        /\ Begin(name)
        /\ env' = e
        /\ log' = <<>>
        /\ Run(<<>>, e, "pytest", <<test_file>>, FALSE, ok, "done")
        /\ NoLocals
        /\ UNCHANGED <<skip_env, disk, cwd>>

session_service_account ==
    PytestOnly("session_service_account", NoEnv, "test_service_account.py")

session_oauth2_credentials ==
    PytestOnly("session_oauth2_credentials", NoEnv,
               "test_oauth2_credentials.py")

session_default_explicit_service_account ==
    PytestOnly("session_default_explicit_service_account",
               SetEnv(SetEnv(NoEnv, EXPLICIT_CREDENTIALS_ENV,
                             SERVICE_ACCOUNT_FILE),
                      EXPECT_PROJECT_ENV, "1"),
               "test_default.py")

session_default_explicit_authorized_user ==
    PytestOnly("session_default_explicit_authorized_user",
               SetEnv(NoEnv, EXPLICIT_CREDENTIALS_ENV, AUTHORIZED_USER_FILE),
               "test_default.py")

session_default_explicit_authorized_user_explicit_project ==
    PytestOnly("session_default_explicit_authorized_user_explicit_project",
               SetEnv(SetEnv(SetEnv(NoEnv, EXPLICIT_CREDENTIALS_ENV,
                                    AUTHORIZED_USER_FILE),
                             EXPLICIT_PROJECT_ENV, "example-project"),
                      EXPECT_PROJECT_ENV, "1"),
               "test_default.py")

session_compute_engine ==
    PytestOnly("session_compute_engine", NoEnv, "test_compute_engine.py")

session_grpc_wrong_test_file ==
    PytestOnly("session_grpc",
               SetEnv(NoEnv, EXPLICIT_CREDENTIALS_ENV, SERVICE_ACCOUNT_FILE),
               "test_service_account.py")

session_grpc ==
    PytestOnly("session_grpc",
               SetEnv(NoEnv, EXPLICIT_CREDENTIALS_ENV, SERVICE_ACCOUNT_FILE),
               "test_grpc.py")

(* --------------------------- Cloud SDK helpers ------------------------- *)
(* py.path.local(GCLOUD).exists() *)
GcloudNeverFound(f) == FALSE

GcloudExists(f) == f[GCLOUD] # Absent

ArchiveContents(p) == IF p = GCLOUD THEN "gcloud cli" ELSE "install script"

(* tar xzf tar_path -C CLOUD_SDK_ROOT that got as far as the members in X. *)
Extract(f, X) == [p \in Paths |-> IF p \in X THEN ArchiveContents(p) ELSE f[p]]

(* install_cloud_sdk(session), called by configure_cloud_sdk. *)
install_cloud_sdk ==
    /\ cur \in CloudSdkSessions
    /\ \/ /\ pc = "install_cloud_sdk"
          /\ env' = SetEnv(SetEnv(env, CLOUD_SDK_CONFIG_ENV, CLOUD_SDK_ROOT),
                           CLOUD_SDK_PYTHON_ENV, CLOUD_SDK_PYTHON)
          /\ pc' = IF GcloudExists(files) THEN "configure_project" ELSE "wget"
          /\ UNCHANGED <<trace, disk>>
       \/ /\ pc = "wget"
          /\ \E ok \in BOOLEAN :
                /\ Run(trace, env, "wget",
                       <<CLOUD_SDK_DOWNLOAD_URL, "-O", tar_path>>, TRUE, ok,
                       "tar")
                /\ \/ ok /\ files' = [files EXCEPT ![tar_path] = "sdk archive"]
                   \/ ~ok /\ files' = files
                   \/ ~ok /\ files' = [files EXCEPT
                                          ![tar_path] = "truncated archive"]
          /\ UNCHANGED <<env, gcloud_project, install_completed>>
       \/ /\ pc = "tar"
          /\ \E ok \in BOOLEAN, X \in SUBSET ArchiveMembers :
                /\ ok => X = ArchiveMembers
                /\ Run(trace, env, "tar",
                       <<"xzf", tar_path, "-C", CLOUD_SDK_ROOT>>, FALSE, ok,
                       "remove")
                /\ files' = Extract(files, X)
          /\ UNCHANGED <<env, gcloud_project, install_completed>>
       \/ /\ pc = "remove"
          /\ \E ok \in BOOLEAN :
                /\ Run(trace, env, "tar_path.remove", <<>>, FALSE, ok,
                       "install.sh")
                /\ files' = IF ok THEN [files EXCEPT ![tar_path] = Absent]
                            ELSE files
          /\ UNCHANGED <<env, gcloud_project, install_completed>>
       \/ /\ pc = "install.sh"
          /\ \E ok \in BOOLEAN :
                /\ Run(trace, env, install_sh,
                       <<"--usage-reporting", "false", "--path-update",
                         "false", "--command-completion", "false">>,
                       TRUE, ok, "configure_project")
                /\ install_completed' = (install_completed \/ ok)
          /\ UNCHANGED <<env, files, gcloud_project>>
    /\ UNCHANGED <<skip_env, cwd, n, cur, virtualenv, log, locals, start>>

(* copy_credentials(credentials_path): the files it leaves behind.  It can *)
(* raise in dest.remove() or in copy().                                    *)
CopyOutcomes(f) ==
    {"copied", "copy failed"}
        \cup (IF f[dest] # Absent THEN {"remove failed"} ELSE {})

copy_credentials_keep_existing(f, credentials_path, outcome) ==
    IF outcome = "copied" /\ f[dest] = Absent
    THEN [f EXCEPT ![dest] = f[credentials_path]]
    ELSE f

copy_credentials(f, credentials_path, outcome) ==
    IF outcome = "remove failed" THEN f
    ELSE IF outcome = "copy failed" THEN [f EXCEPT ![dest] = Absent]
    ELSE [f EXCEPT ![dest] = f[credentials_path]]

(* configure_cloud_sdk(session, application_default_credentials, project) *)
configure_cloud_sdk ==
    \/ install_cloud_sdk
    \/ /\ cur \in CloudSdkSessions
       /\ \/ /\ pc = "configure_project"
             /\ \E ok \in BOOLEAN :
                   IF ProjectArg(cur)
                   THEN /\ Run(trace, env, GCLOUD,
                               <<"config", "set", "project",
                                 "example-project">>,
                               FALSE, ok, "copy_credentials")
                        /\ gcloud_project' =
                               IF ok THEN "example-project" ELSE gcloud_project
                   ELSE /\ Run(trace, env, GCLOUD,
                               <<"config", "unset", "project">>,
                               FALSE, ok, "copy_credentials")
                        /\ gcloud_project' = IF ok THEN "" ELSE gcloud_project
             /\ UNCHANGED <<files, install_completed>>
          \/ /\ pc = "copy_credentials"
             /\ \E outcome \in CopyOutcomes(files) :
                   /\ Run(trace, env, "copy_credentials",
                          <<CredentialsArg(cur)>>, FALSE, outcome = "copied",
                          "print_access_token")
                   /\ files' = copy_credentials(files, CredentialsArg(cur),
                                                outcome)
             /\ UNCHANGED <<gcloud_project, install_completed>>
          \/ /\ pc = "print_access_token"
             /\ \E ok \in BOOLEAN :
                   Run(trace, env, GCLOUD,
                       <<"auth", "application-default", "print-access-token">>,
                       TRUE, ok, "configured")
             /\ UNCHANGED disk
       /\ UNCHANGED <<skip_env, cwd, n, cur, virtualenv, env, log, locals,
                      start>>

(* ------------------- sessions that configure the SDK ------------------- *)
(* The session function up to its call of configure_cloud_sdk. *)
CallConfigure(name) ==
    /\ Begin(name)
    /\ env' = NoEnv
    /\ trace' = <<>>
    /\ log' = <<>>
    /\ pc' = "install_cloud_sdk"
    /\ NoLocals
    /\ UNCHANGED <<skip_env, disk, cwd>>

(* The session function after configure_cloud_sdk returned. *)
PytestAfterConfigure(name, e) ==
    /\ cur = name
    /\ pc = "configured"
    /\ env' = e
    /\ \E ok \in BOOLEAN :
          Run(trace, e, "pytest", <<"test_default.py">>, FALSE, ok, "done")
    /\ UNCHANGED <<skip_env, disk, cwd, n, cur, virtualenv, log, locals, start>>

session_default_cloud_sdk_service_account ==
    \/ CallConfigure("session_default_cloud_sdk_service_account")
    \/ PytestAfterConfigure("session_default_cloud_sdk_service_account",
                            SetEnv(env, EXPECT_PROJECT_ENV, "1"))

session_default_cloud_sdk_authorized_user_expects_project ==
    \/ CallConfigure("session_default_cloud_sdk_authorized_user")
    \/ PytestAfterConfigure("session_default_cloud_sdk_authorized_user",
                            SetEnv(env, EXPECT_PROJECT_ENV, "1"))

session_default_cloud_sdk_authorized_user ==
    \/ CallConfigure("session_default_cloud_sdk_authorized_user")
    \/ PytestAfterConfigure("session_default_cloud_sdk_authorized_user", env)

session_default_cloud_sdk_authorized_user_configured_project ==
    \/ CallConfigure(
           "session_default_cloud_sdk_authorized_user_configured_project")
    \/ PytestAfterConfigure(
           "session_default_cloud_sdk_authorized_user_configured_project",
           SetEnv(env, EXPECT_PROJECT_ENV, "1"))

(* ------------------------- session_app_engine -------------------------- *)
(* SKIP_GAE_TEST_ENV in os.environ *)
SkipNeverRequested == FALSE

SkipRequested == skip_env

(* not project_id *)
MissingProjectIgnored(pid) == FALSE

MissingProject(pid) == pid = ""

LookupArgs == <<"config", "list", "project", "--format", "value(core.project)">>

session_app_engine ==
    \/ /\ Begin("session_app_engine")
       /\ env' = NoEnv
       /\ IF SkipRequested
          THEN /\ log' = <<"Skipping App Engine tests.">>
               /\ trace' = <<>>
               /\ pc' = "done"
               /\ NoLocals
          ELSE \/ (* check_output raises: the gcloud on PATH failed *)
                  /\ trace' = <<Step("subprocess.check_output", "gcloud",
                                     LookupArgs, FALSE, FALSE, NoEnv)>>
                  /\ log' = <<>>
                  /\ pc' = "failed"
                  /\ NoLocals
               \/ \E out \in LookupOutputs :
                     /\ trace' = <<Step("subprocess.check_output", "gcloud",
                                        LookupArgs, FALSE, TRUE, NoEnv)>>
                     /\ lookup_stdout' = out
                     /\ project_id' = Concat(Strip(out))
                     /\ IF MissingProject(project_id')
                        THEN /\ log' = <<"The Cloud SDK must be installed and configured to deploy to App Engine.">>
                             /\ pc' = "failed"
                             /\ application_url' = None
                        ELSE /\ log' = <<>>
                             /\ application_url' =
                                    Format(GAE_APP_URL_TMPL,
                                           <<GAE_TEST_APP_SERVICE, project_id'>>)
                             /\ pc' = "chdir_app"
       /\ UNCHANGED <<skip_env, disk, cwd>>
    \/ /\ cur = "session_app_engine"
       /\ \/ /\ pc = "chdir_app"
             /\ \E ok \in BOOLEAN :
                   /\ trace' = Append(trace, Step("session.chdir", "chdir",
                                                  <<app_dir>>, FALSE, ok, env))
                   /\ cwd' = IF ok THEN app_dir ELSE cwd
                   /\ pc' = IF ok THEN "pip" ELSE "failed"
             /\ UNCHANGED env
          \/ /\ pc = "pip"
             /\ \E ok \in BOOLEAN :
                   Run(trace, env, "pip",
                       <<"install", "--target", "lib", "-r",
                         "requirements.txt">>,
                       TRUE, ok, "deploy")
             /\ UNCHANGED <<env, cwd>>
          \/ /\ pc = "deploy"
             /\ \E ok \in BOOLEAN :
                   Run(trace, env, "gcloud", <<"app", "deploy", "-q", "app.yaml">>,
                       FALSE, ok, "chdir_here")
             /\ UNCHANGED <<env, cwd>>
          \/ /\ pc = "chdir_here"
             /\ env' = SetEnv(env, "TEST_APP_URL", application_url)
             /\ \E ok \in BOOLEAN :
                   /\ trace' = Append(trace, Step("session.chdir", "chdir",
                                                  <<HERE>>, FALSE, ok, env'))
                   /\ cwd' = IF ok THEN HERE ELSE cwd
                   /\ pc' = IF ok THEN "pytest_app_engine" ELSE "failed"
          \/ /\ pc = "pytest_app_engine"
             /\ \E ok \in BOOLEAN :
                   Run(trace, env, "pytest", <<"test_app_engine.py">>, FALSE,
                       ok, "done")
             /\ UNCHANGED <<env, cwd>>
       /\ UNCHANGED <<skip_env, disk, n, cur, virtualenv, log, locals, start>>

Next ==
    \/ session_service_account
    \/ session_oauth2_credentials
    \/ session_default_explicit_service_account
    \/ session_default_explicit_authorized_user
    \/ session_default_explicit_authorized_user_explicit_project
    \/ session_default_cloud_sdk_service_account
    \/ session_default_cloud_sdk_authorized_user
    \/ session_default_cloud_sdk_authorized_user_configured_project
    \/ configure_cloud_sdk
    \/ session_compute_engine
    \/ session_app_engine
    \/ session_grpc

Spec == Init /\ [][Next]_vars

(* ============================== properties ============================= *)
Range(seq) == {seq[i] : i \in DOMAIN seq}

StepsOf(cmds) == {i \in DOMAIN trace : trace[i].cmd \in cmds}
PytestSteps == StepsOf({"pytest"})
InstallSteps == StepsOf({"wget", "tar", "tar_path.remove", install_sh})
StepsWith(cmd, args) ==
    {i \in DOMAIN trace : trace[i].cmd = cmd /\ trace[i].args = args}
UnsetProjectSteps == StepsWith(GCLOUD, <<"config", "unset", "project">>)
PrintTokenSteps ==
    StepsWith(GCLOUD, <<"auth", "application-default", "print-access-token">>)
CopySteps == StepsOf({"copy_credentials"})

GcloudAtStart == start.files[GCLOUD] # Absent

(* The test file each session is expected to hand to pytest. *)
ExpectedTestFile(s) ==
    CASE s = "session_service_account" -> "test_service_account.py"
      [] s = "session_oauth2_credentials" -> "test_oauth2_credentials.py"
      [] s = "session_compute_engine" -> "test_compute_engine.py"
      [] s = "session_app_engine" -> "test_app_engine.py"
      [] s = "session_grpc" -> "test_grpc.py"
      [] OTHER -> "test_default.py"

(* C1, as claimed: a call of install_cloud_sdk that finds bin/gcloud       *)
(* changes nothing at all, neither on disk nor in the session.             *)
C1_NoSideEffectsAtAll ==
    [][(pc = "install_cloud_sdk" /\ files[GCLOUD] # Absent)
          => UNCHANGED <<disk, cwd, trace, env, virtualenv, log>>]_vars

(* C1, amended: a call of install_cloud_sdk that finds bin/gcloud returns  *)
(* to its caller having run no command and changed nothing on disk; its    *)
(* only effect is to set CLOUDSDK_CONFIG and CLOUDSDK_PYTHON in            *)
(* session.env.  A session that started with bin/gcloud present never runs *)
(* wget, tar, the archive removal or install.sh.                           *)
C1_PresentSkipsInstall ==
    /\ [][(pc = "install_cloud_sdk" /\ files[GCLOUD] # Absent)
            => /\ pc' = "configure_project"
               /\ UNCHANGED <<disk, cwd, trace, virtualenv, log>>
               /\ DOMAIN env' = DOMAIN env \cup {"CLOUDSDK_CONFIG",
                                                 "CLOUDSDK_PYTHON"}
               /\ env'["CLOUDSDK_CONFIG"] = "/sdk_root"
               /\ \A k \in DOMAIN env
                      \ {"CLOUDSDK_CONFIG", "CLOUDSDK_PYTHON"} :
                      env'[k] = env[k]]_vars
    /\ [](GcloudAtStart => InstallSteps = {})

C1_Witness ==
    /\ n >= 2
    /\ GcloudAtStart /\ start.installed
    /\ pc = "configure_project"
    /\ trace = <<>>
    /\ "CLOUDSDK_CONFIG" \in DOMAIN env

(* C2, as claimed: every ended session run without the skip flag has       *)
(* invoked pytest exactly once, with its test file as the only argument.   *)
C2_PytestExactlyOnce ==
    (pc \in {"done", "failed"} /\ ~skip_env)
        => /\ Cardinality(PytestSteps) = 1
           /\ \A i \in PytestSteps : trace[i].args = <<ExpectedTestFile(cur)>>

(* C2, amended: a session invokes pytest at most once, as its last step    *)
(* and with its expected test file as the only argument; a session that    *)
(* ends without a failed step (and, for session_app_engine, without the    *)
(* skip flag) has invoked it exactly once; a session ended by a failed     *)
(* setup step or by the missing project id has not invoked it.             *)
C2_PytestOnceUnlessAborted ==
    /\ Cardinality(PytestSteps) <= 1
    /\ \A i \in PytestSteps :
          /\ trace[i].args = <<ExpectedTestFile(cur)>>
          /\ trace[i].via = "session.run"
          /\ i = Len(trace)
    /\ (pc = "done" /\ ~(cur = "session_app_engine" /\ skip_env))
          => Cardinality(PytestSteps) = 1
    /\ (pc = "failed" /\ PytestSteps # {})
          => ~trace[Len(trace)].ok

C2_Witness ==
    /\ pc = "done"
    /\ cur = "session_default_cloud_sdk_authorized_user_configured_project"
    /\ ~GcloudAtStart
    /\ Cardinality(PytestSteps) = 1

(* C3: with SKIP_APP_ENGINE_SYSTEM_TEST in os.environ, session_app_engine  *)
(* only logs its notice: it runs no lookup, no command and no pytest, sets *)
(* nothing in session.env and leaves the disk and the working directory    *)
(* as they were.                                                           *)
C3_SkipDoesNothing ==
    (cur = "session_app_engine" /\ skip_env)
        => /\ pc = "done"
           /\ trace = <<>>
           /\ log = <<"Skipping App Engine tests.">>
           /\ env = NoEnv
           /\ lookup_stdout = NoOutput /\ project_id = None
           /\ application_url = None
           /\ Snapshot = start
           /\ cwd = HERE

C3_Witness ==
    /\ cur = "session_app_engine"
    /\ skip_env
    /\ pc = "done"
    /\ log # <<>>
    /\ n >= 2
    /\ files[GCLOUD] # Absent

(* C4, as claimed: when pytest is invoked, explicit project and            *)
(* credentials together imply EXPECT_PROJECT_ID, and a session that ran    *)
(* 'gcloud config unset project' has no EXPECT_PROJECT_ID and no           *)
(* configured project.                                                     *)
C4_NoExpectWithoutProject ==
    \A i \in PytestSteps :
        LET e == trace[i].env IN
        /\ ({"GOOGLE_CLOUD_PROJECT", "GOOGLE_APPLICATION_CREDENTIALS"}
                \subseteq DOMAIN e)
              => "EXPECT_PROJECT_ID" \in DOMAIN e
        /\ UnsetProjectSteps # {}
              => /\ "EXPECT_PROJECT_ID" \notin DOMAIN e
                 /\ gcloud_project = ""

(* C4, amended: when pytest is invoked, explicit project and credentials   *)
(* together imply EXPECT_PROJECT_ID; a session that ran 'gcloud config     *)
(* unset project' has no configured project left, and has                  *)
(* EXPECT_PROJECT_ID set exactly when the credentials it installed are the *)
(* service account key (session_default_cloud_sdk_service_account).        *)
C4_ExpectFollowsCredentials ==
    \A i \in PytestSteps :
        LET e == trace[i].env IN
        /\ ({"GOOGLE_CLOUD_PROJECT", "GOOGLE_APPLICATION_CREDENTIALS"}
                \subseteq DOMAIN e)
              => "EXPECT_PROJECT_ID" \in DOMAIN e
        /\ UnsetProjectSteps # {}
              => /\ gcloud_project = ""
                 /\ "EXPECT_PROJECT_ID" \in DOMAIN e
                       <=> files[dest] = "service account key"
                 /\ "EXPECT_PROJECT_ID" \in DOMAIN e
                       <=> cur = "session_default_cloud_sdk_service_account"

C4_Witness ==
    /\ PytestSteps # {}
    /\ UnsetProjectSteps # {}
    /\ start.project = "example-project"
    /\ gcloud_project = ""
    /\ "EXPECT_PROJECT_ID" \notin DOMAIN env

(* C5: in session_app_engine without the skip flag, a lookup whose output  *)
(* is empty after stripping ends the session with the operator-facing      *)
(* error, the lookup being the only step: no chdir, no pip, no deploy, no  *)
(* TEST_APP_URL and no pytest.                                             *)
C5_EmptyProjectHalts ==
    (/\ cur = "session_app_engine"
     /\ lookup_stdout # NoOutput
     /\ \A t \in Range(lookup_stdout) : t \in {" ", "\n", "\t"})
        => /\ ~skip_env
           /\ pc = "failed"
           /\ Len(trace) = 1
           /\ trace[1].via = "subprocess.check_output"
           /\ StepsOf({"chdir", "pip", "gcloud", "pytest"}) = {1}
           /\ log = <<"The Cloud SDK must be installed and configured to deploy to App Engine.">>
           /\ "TEST_APP_URL" \notin DOMAIN env
           /\ application_url = None

C5_Witness ==
    /\ cur = "session_app_engine"
    /\ lookup_stdout = <<" ", "\n">>
    /\ project_id = ""
    /\ pc = "failed"

(* C6, as claimed: a session that starts with bin/gcloud under the        *)
(* install root neither downloads the SDK again nor changes any file       *)
(* under the install root.                                                 *)
C6_RootNeverMutated ==
    GcloudAtStart
        => /\ StepsOf({"wget"}) = {}
           /\ files = start.files

(* C6, amended: a session that starts with bin/gcloud under the install    *)
(* root runs no download, extraction, archive removal or install script,   *)
(* and leaves the archive, the extracted SDK and its installation state as *)
(* they were; what it may rewrite under the root is the file               *)
(* application_default_credentials.json and the SDK's active project.      *)
C6_SdkNeverReinstalled ==
    GcloudAtStart
        => /\ InstallSteps = {}
           /\ \A p \in Paths \ {"/sdk_root/application_default_credentials.json"} :
                  files[p] = start.files[p]
           /\ install_completed = start.installed

C6_Witness ==
    /\ GcloudAtStart
    /\ cur \in CloudSdkSessions
    /\ pc = "done"
    /\ start.files[dest] # Absent
    /\ files[dest] # start.files[dest]
    /\ gcloud_project # start.project

(* The contents of the credentials file each session installs. *)
ExpectedCredentials(s) ==
    IF s = "session_default_cloud_sdk_service_account"
    THEN "service account key"
    ELSE "authorized user token"

(* C7: once configure_cloud_sdk has completed, the file                    *)
(* application_default_credentials.json in the directory named by the      *)
(* session's CLOUDSDK_CONFIG holds the contents of the credentials the     *)
(* session supplied, whatever was there before; the print-access-token     *)
(* command ran once, after the copy, and silently.                         *)
C7_CredentialsInstalledThenValidated ==
    (cur \in CloudSdkSessions /\ pc \in {"configured", "done"})
        => /\ "CLOUDSDK_CONFIG" \in DOMAIN env
           /\ files[env["CLOUDSDK_CONFIG"]
                        \o "/application_default_credentials.json"]
                  = ExpectedCredentials(cur)
           /\ Cardinality(CopySteps) = 1
           /\ Cardinality(PrintTokenSteps) = 1
           /\ \A c \in CopySteps, t \in PrintTokenSteps :
                  /\ c < t
                  /\ trace[c].ok /\ trace[t].ok
                  /\ trace[t].silent
                  /\ trace[t].env["CLOUDSDK_CONFIG"] = env["CLOUDSDK_CONFIG"]

C7_Witness ==
    /\ cur = "session_default_cloud_sdk_service_account"
    /\ pc = "configured"
    /\ start.files[dest] = "authorized user token"
    /\ files[dest] = "service account key"

(* The one piece of a lookup output that is not whitespace. *)
ProjectIn(out) == CHOOSE t \in Range(out) : t \notin {" ", "\n", "\t"}

(* C8: when session_app_engine runs pytest, TEST_APP_URL is                *)
(* https://google-auth-system-tests-dot-<project>.appspot.com for the      *)
(* stripped project id the lookup printed; for example-project it is       *)
(* https://google-auth-system-tests-dot-example-project.appspot.com.       *)
C8_TestAppUrl ==
    (cur = "session_app_engine" /\ PytestSteps # {})
        => \A i \in PytestSteps :
               LET e == trace[i].env IN
               /\ "TEST_APP_URL" \in DOMAIN e
               /\ e["TEST_APP_URL"] =
                      "https://google-auth-system-tests-dot-"
                          \o ProjectIn(lookup_stdout) \o ".appspot.com"
               /\ ProjectIn(lookup_stdout) = "example-project"
                     => e["TEST_APP_URL"] =
                            "https://google-auth-system-tests-dot-example-project.appspot.com"

C8_Witness ==
    /\ cur = "session_app_engine"
    /\ pc = "done"
    /\ lookup_stdout = <<"example-project", "\n">>
    /\ env["TEST_APP_URL"] =
           "https://google-auth-system-tests-dot-example-project.appspot.com"

(* C9: a failed step is the last step of its session: every step before   *)
(* the last one succeeded, a session whose last step failed has ended, so  *)
(* pytest never follows a failure, and no step is run a second time.       *)
C9_FailedStepEndsSession ==
    /\ \A i \in DOMAIN trace : i < Len(trace) => trace[i].ok
    /\ (trace # <<>> /\ ~trace[Len(trace)].ok) => pc = "failed"
    /\ \A i, j \in DOMAIN trace :
          (trace[i].cmd = trace[j].cmd /\ trace[i].args = trace[j].args)
              => i = j

C9_Witness ==
    /\ cur \in CloudSdkSessions
    /\ pc = "failed"
    /\ Len(trace) >= 4
    /\ trace[Len(trace)].cmd = install_sh
    /\ ~trace[Len(trace)].ok

=============================================================================
